---- MODULE Spec2Model ----
(***************************************************************************)
(* Model of roadii's topology resolver (src/src/main.rs):                  *)
(* Wiitar::from_kernel_name_with_udev, its helper                          *)
(* get_event_device_from_input_device_with_udev, Wiitar::is_complete and   *)
(* the part of main that turns the three resolved devices into the evsieve *)
(* command line.                                                           *)
(*                                                                         *)
(* Strings the code looks into (name attributes, system names, the kernel  *)
(* name) are sequences of one-character strings; strings it only compares  *)
(* or passes on (system paths, subsystem and driver names, device nodes)   *)
(* are TLA+ strings.  Option<T> is a sequence of length 0 or 1.            *)
(*                                                                         *)
(* The udev library is outside the repository.  Its enumerations are       *)
(* modelled as                                                             *)
(*  - "faithful" results: every device under the match parent (the parent  *)
(*    included) that has the requested subsystem, in any order, and        *)
(*  - "loose" results: any duplicate-free sequence drawn from a pool of    *)
(*    candidates (the parent itself, its children, deeper descendants,     *)
(*    devices elsewhere, a device without a parent), since the interface   *)
(*    does not promise more than a sequence of devices.                    *)
(* Enumerator construction, the installation of matchers and the scans     *)
(* themselves are taken to succeed.                                        *)
(***************************************************************************)
EXTENDS Integers, Sequences, FiniteSets, TLC

VARIABLES
    kernel_name,   \* the kernel_name argument
    udev,          \* the device tree the udev handle gives access to
    pc,            \* position in from_kernel_name_with_udev / main
    guitar,        \* Option<Device>: `guitar` (line 39)
    wiimote,       \* Option<Device>: `wiimote` (line 83)
    printed,       \* Option<<<parent sysname, guitar sysname>>>: the println! of line 106
    inputs,        \* Option<Wiitar>: `inputs` (line 113)
    scanned,       \* the sibling enumerator has been scanned (line 127)
    sibs,          \* the devices the sibling scan returned, in order
    idx,           \* number of devices the for loop has pulled from the scan
    cur,           \* Option<Device>: the sibling handed to the descent, until the loop moves on
    children,      \* the devices the last descent scan returned, in order
    err,           \* the error the resolver or main returned ("" = none)
    cmd,           \* Option<sequence of words>: the exec::Command under construction
    parentQueried, \* devices whose parent() the filter closure asked for
    nameQueried,   \* devices whose "name" attribute the loop body read
    descended,     \* devices handed to get_event_device_from_input_device_with_udev
    source,        \* per role, the sibling whose event node fills the slot
    faithful       \* every enumeration so far was a faithful one

vars == <<kernel_name, udev, pc, guitar, wiimote, printed, inputs, scanned, sibs,
          idx, cur, children, err, cmd, parentQueried, nameQueried, descended,
          source, faithful>>

----------------------------------------------------------------------------
(* Bounds *)

\* longest loose result of the sibling scan
MaxEnum == 4
\* longest loose result of a descent scan
MaxChildren == 2
\* largest set of matching devices whose every ordering is explored
MaxFaithful == 6

----------------------------------------------------------------------------
(* Option and string helpers *)

None == <<>>
Some(x) == <<x>>

Range(s) == {s[i] : i \in 1..Len(s)}

\* str::starts_with
StartsWith(s, p) ==
    /\ Len(s) >= Len(p)
    /\ \A i \in 1..Len(p) : s[i] = p[i]

\* str::ends_with
EndsWith(s, p) ==
    /\ Len(s) >= Len(p)
    /\ \A i \in 1..Len(p) : s[Len(s) - Len(p) + i] = p[i]

\* str::contains
Contains(s, p) ==
    \E k \in 0..(Len(s) - Len(p)) : \A i \in 1..Len(p) : s[k + i] = p[i]

\* a byte that is not valid UTF-8, and what to_string_lossy puts in its place
INVALID_BYTE == "\\xFF"
REPLACEMENT_CHARACTER == "U+FFFD"

\* OsStr::to_string_lossy
ToStringLossy(os) ==
    [i \in 1..Len(os) |-> IF os[i] = INVALID_BYTE THEN REPLACEMENT_CHARACTER ELSE os[i]]

----------------------------------------------------------------------------
(* String constants of the code *)

REMOTE_NAME == <<"N","i","n","t","e","n","d","o"," ","W","i","i"," ","R","e","m","o","t","e">>
GUITAR_NAME == REMOTE_NAME \o <<" ","G","u","i","t","a","r">>
ACCEL_NAME == REMOTE_NAME \o <<" ","A","c","c","e","l","e","r","o","m","e","t","e","r">>
WII == <<"W","i","i">>
GUITAR == <<"G","u","i","t","a","r">>
EVENT == <<"e","v","e","n","t">>

----------------------------------------------------------------------------
(* The device trees *)

INPUT == <<"i","n","p","u","t">>

Dev(sysname, name, subsystem, driver, parent, devnode) ==
    [sysname |-> sysname, name |-> name, subsystem |-> subsystem,
     driver |-> driver, parent |-> parent, devnode |-> devnode]

InputDev(num, name, parent) ==
    Dev(INPUT \o num, name, Some("input"), None, parent, None)

EventDev(num, name, parent, devnode) ==
    Dev(EVENT \o num, name, Some("input"), None, Some(parent), devnode)

HCI == "/sys/hci0"
HID1 == "/sys/hci0/hid1"
HID4 == "/sys/hci0/hid4"

\* hid1 carries exactly the three inputs of a Wii remote with a guitar;
\* hid4 carries the same three and a number of odd ones (the event node of
\* its accelerometer has a name attribute and no device node).
Forest ==
    (HCI :> Dev(<<"h","c","i","0">>, None, Some("bluetooth"), None, None, None))
 @@ (HID1 :> Dev(<<"h","i","d","1">>, None, Some("hid"), Some("wiimote"), Some(HCI), None))
 @@ ("/sys/hci0/hid1/input18" :> InputDev(<<"1","8">>, Some(REMOTE_NAME), Some(HID1)))
 @@ ("/sys/hci0/hid1/input18/event7" :>
        EventDev(<<"7">>, None, "/sys/hci0/hid1/input18", Some("/dev/input/event7")))
 @@ ("/sys/hci0/hid1/input19" :> InputDev(<<"1","9">>, Some(GUITAR_NAME), Some(HID1)))
 @@ ("/sys/hci0/hid1/input19/event8" :>
        EventDev(<<"8">>, None, "/sys/hci0/hid1/input19", Some("/dev/input/event8")))
 @@ ("/sys/hci0/hid1/input20" :> InputDev(<<"2","0">>, Some(ACCEL_NAME), Some(HID1)))
 @@ ("/sys/hci0/hid1/input20/event9" :>
        EventDev(<<"9">>, None, "/sys/hci0/hid1/input20", Some("/dev/input/event9")))
 @@ (HID4 :> Dev(<<"h","i","d","4">>, Some(REMOTE_NAME), Some("hid"), Some("wiimote"), Some(HCI), None))
 @@ ("/sys/hci0/hid4/input48" :> InputDev(<<"4","8">>, Some(REMOTE_NAME), Some(HID4)))
 @@ ("/sys/hci0/hid4/input48/event47" :>
        EventDev(<<"4","7">>, None, "/sys/hci0/hid4/input48", Some("/dev/input/event47")))
 @@ ("/sys/hci0/hid4/input48/js0" :>
        Dev(<<"j","s","0">>, None, Some("input"), None, Some("/sys/hci0/hid4/input48"),
            Some("/dev/input/js0")))
 @@ ("/sys/hci0/hid4/input49" :> InputDev(<<"4","9">>, Some(GUITAR_NAME), Some(HID4)))
 @@ ("/sys/hci0/hid4/input49/event48" :>
        EventDev(<<"4","8">>, None, "/sys/hci0/hid4/input49", Some("/dev/input/event48")))
 @@ ("/sys/hci0/hid4/input50" :> InputDev(<<"5","0">>, Some(ACCEL_NAME), Some(HID4)))
 @@ ("/sys/hci0/hid4/input50/event49" :>
        EventDev(<<"4","9">>, Some(ACCEL_NAME), "/sys/hci0/hid4/input50", None))
    \* an input without a name attribute
 @@ ("/sys/hci0/hid4/input63" :> InputDev(<<"6","3">>, None, Some(HID4)))
    \* a second accelerometer, whose own system name starts with "event" and
    \* which has no event node
 @@ ("/sys/hci0/hid4/event5" :>
        Dev(EVENT \o <<"5">>, Some(ACCEL_NAME), Some("input"), None, Some(HID4), None))
    \* inputs directly under the host controller
 @@ ("/sys/hci0/input61" :> InputDev(<<"6","1">>, Some(REMOTE_NAME), Some(HCI)))
 @@ ("/sys/hci0/input62" :>
        InputDev(<<"6","2">>, Some(<<"B","a","s","s"," ">> \o GUITAR), Some(HCI)))
 @@ ("/sys/hci0/input64" :>
        InputDev(<<"6","4">>, Some(WII \o <<" ","B","a","s","s"," ">> \o GUITAR), Some(HCI)))
 @@ ("/sys/hci0/input65" :>
        InputDev(<<"6","5">>, Some(GUITAR_NAME \o <<INVALID_BYTE>>), Some(HCI)))
 @@ ("/sys/hci0/input80" :> InputDev(<<"8","0">>, Some(GUITAR_NAME), Some(HCI)))
    \* devices without a parent
 @@ ("/sys/input70" :> InputDev(<<"7","0">>, Some(GUITAR_NAME), None))
 @@ ("/sys/input80" :> InputDev(<<"8","0">>, Some(GUITAR_NAME), None))

HidParents == {HID1, HID4}

\* the forest with the given subsystem and driver on the two hid devices
WithHid(s, d) ==
    [id \in DOMAIN Forest |->
        IF id \in HidParents
        THEN [Forest[id] EXCEPT !.subsystem = s, !.driver = d]
        ELSE Forest[id]]

Trees ==
    {WithHid(s, d) : s \in {None, Some("hid"), Some("usb")},
                     d \in {None, Some("wiimote"), Some("hid-generic")}}

KernelNames ==
    {INPUT \o n : n \in {<<"1","9">>, <<"4","9">>, <<"6","1">>, <<"6","2">>, <<"6","3">>,
                         <<"6","4">>, <<"6","5">>, <<"7","0">>, <<"8","0">>, <<"9","9">>}}

----------------------------------------------------------------------------
(* The udev queries *)

\* all duplicate-free sequences of length n over S
Arrangements(S, n) ==
    {f \in [1..n -> S] : \A i, j \in 1..n : i # j => f[i] # f[j]}

RECURSIVE IsUnder(_, _, _)
\* d is p or a descendant of p
IsUnder(t, d, p) ==
    \/ d = p
    \/ /\ t[d].parent # None
       /\ IsUnder(t, t[d].parent[1], p)

\* Enumerator::match_sysname + scan_devices
MatchSysname(t, name) == {d \in DOMAIN t : t[d].sysname = name}

\* Enumerator::match_parent + match_subsystem + scan_devices, as a set
MatchParentSubsystem(t, p, subsystem) ==
    {d \in DOMAIN t : IsUnder(t, d, p) /\ t[d].subsystem = Some(subsystem)}

FaithfulResults(t, p) ==
    LET M == MatchParentSubsystem(t, p, "input")
    IN  IF Cardinality(M) <= MaxFaithful THEN Arrangements(M, Cardinality(M)) ELSE {}

DirectInputs(t, p) ==
    {d \in DOMAIN t : t[d].parent = Some(p) /\ t[d].subsystem = Some("input")}

\* devices a loose sibling scan may return besides the parent and its inputs:
\* one without a parent, and a named event node (a deeper descendant of hid4,
\* a device elsewhere in the tree for hid1)
Strays == {"/sys/input70", "/sys/hci0/hid4/input50/event49"}

\* an event node a loose descent scan may return for any sibling
SharedEvent == "/sys/hci0/hid4/input49/event48"

LooseSiblingResults(t, p) ==
    UNION {Arrangements({p} \cup DirectInputs(t, p) \cup Strays, n) : n \in 0..MaxEnum}

LooseDescentResults(t, d) ==
    UNION {Arrangements({d} \cup DirectInputs(t, d) \cup {SharedEvent}, n) : n \in 0..MaxChildren}

\* what sibling_enumerator.scan_devices() may yield
SiblingScanResults(t, p) == FaithfulResults(t, p) \cup LooseSiblingResults(t, p)

\* what enumerator.scan_devices() may yield in the descent
DescentScanResults(t, d) == FaithfulResults(t, d) \cup LooseDescentResults(t, d)

----------------------------------------------------------------------------
(* Pure parts of the resolver *)

Roles == {"wiimote", "guitar", "accel"}

EmptyWiitar == [wiimote |-> None, guitar |-> None, accel |-> None]

\* faulty variant: any non-empty result is accepted and its first device taken
AtLeastOneMatch(n) == n >= 1

\* matching_devices.len() != 1, negated
SingleMatch(n) == n = 1

\* !name.contains("Wii") || !name.ends_with("Guitar"), negated
LooksLikeGuitar(name) == Contains(name, WII) /\ EndsWith(name, GUITAR)

IsHidSubsystem(s) == s = "hid"

\* faulty variant: the generic HID driver is accepted as well
IsAnyHidDriver(d) == d \in {"wiimote", "hid-generic"}

IsWiimoteDriver(d) == d = "wiimote"

\* faulty variant: the filter keeps every device that has a parent
SiblingFilterAnyParent(t, d, w) ==
    IF d = w THEN "drop"
    ELSE IF t[d].parent = None THEN "panic"
    ELSE "keep"

\* the filter closure of the sibling loop; "panic" is the expect on parent()
SiblingFilter(t, d, w) ==
    IF d = w THEN "drop"
    ELSE IF t[d].parent = None THEN "panic"
    ELSE IF t[d].parent[1] = w THEN "keep"
    ELSE "drop"

\* faulty variant: the guitar and accelerometer arms are swapped
RoleOfSwapped(name) ==
    CASE name = REMOTE_NAME -> "wiimote"
      [] name = GUITAR_NAME -> "accel"
      [] name = ACCEL_NAME -> "guitar"
      [] OTHER -> "other"

\* the match on the name string
RoleOf(name) ==
    CASE name = REMOTE_NAME -> "wiimote"
      [] name = GUITAR_NAME -> "guitar"
      [] name = ACCEL_NAME -> "accel"
      [] OTHER -> "other"

\* faulty variant: the slot is filled again by every matching sibling
SlotAlwaysFree(w, role) == TRUE

\* inputs.<role>.is_none()
SlotIsNone(w, role) == w[role] = None

\* faulty variant: the accelerometer is forgotten
IsCompleteWithoutAccel(w) == w.wiimote # None /\ w.guitar # None

\* Wiitar::is_complete
IsComplete(w) == w.wiimote # None /\ w.guitar # None /\ w.accel # None

\* faulty variant: the loop never breaks
AfterMatchNoBreak(w) == "iter"

\* if inputs.is_complete() { break; }
AfterMatch(w) == IF IsComplete(w) THEN "final" ELSE "iter"

RECURSIVE FirstEventNoSelfCheck(_, _, _)
\* faulty variant: the scanned device itself is not skipped
FirstEventNoSelfCheck(t, cs, d) ==
    IF cs = <<>> THEN None
    ELSE IF StartsWith(ToStringLossy(t[Head(cs)].sysname), EVENT) THEN Some(Head(cs))
    ELSE FirstEventNoSelfCheck(t, Tail(cs), d)

RECURSIVE FirstEvent(_, _, _)
\* the for loop of get_event_device_from_input_device_with_udev
FirstEvent(t, cs, d) ==
    IF cs = <<>> THEN None
    ELSE IF Head(cs) = d THEN FirstEvent(t, Tail(cs), d)
    ELSE IF StartsWith(ToStringLossy(t[Head(cs)].sysname), EVENT) THEN Some(Head(cs))
    ELSE FirstEvent(t, Tail(cs), d)

----------------------------------------------------------------------------
(* Initial state *)

Init ==
    /\ kernel_name \in KernelNames
    /\ udev \in Trees
    /\ pc = "locate"
    /\ guitar = None
    /\ wiimote = None
    /\ printed = None
    /\ inputs = None
    /\ scanned = FALSE
    /\ sibs = <<>>
    /\ idx = 0
    /\ cur = None
    /\ children = <<>>
    /\ err = ""
    /\ cmd = None
    /\ parentQueried = {}
    /\ nameQueried = {}
    /\ descended = {}
    /\ source = [r \in Roles |-> None]
    /\ faithful = TRUE

Fail(kind) ==
    /\ pc' = "failed"
    /\ err' = kind

----------------------------------------------------------------------------
(* from_kernel_name_with_udev *)

\* lines 39-61
Locate ==
    /\ pc = "locate"
    /\ \E matching_devices \in
            Arrangements(MatchSysname(udev, kernel_name),
                         Cardinality(MatchSysname(udev, kernel_name))) :
        IF ~SingleMatch(Len(matching_devices))
        THEN /\ Fail("AmbiguousOrMissingDevice")
             /\ UNCHANGED guitar
        ELSE /\ guitar' = Some(matching_devices[1])
             /\ pc' = "identity"
             /\ UNCHANGED err
    /\ UNCHANGED <<kernel_name, udev, wiimote, printed, inputs, scanned, sibs, idx, cur,
                   children, cmd, parentQueried, nameQueried, descended, source, faithful>>

\* lines 63-78
ValidateIdentity ==
    /\ pc = "identity"
    /\ LET name == udev[guitar[1]].name
       IN  IF name = None
           THEN Fail("MissingAttribute")
           ELSE IF ~LooksLikeGuitar(ToStringLossy(name[1]))
           THEN Fail("IdentityMismatch")
           ELSE pc' = "parent" /\ UNCHANGED err
    /\ UNCHANGED <<kernel_name, udev, guitar, wiimote, printed, inputs, scanned, sibs, idx,
                   cur, children, cmd, parentQueried, nameQueried, descended, source,
                   faithful>>

\* lines 83-85
LocateParent ==
    /\ pc = "parent"
    /\ IF udev[guitar[1]].parent = None
       THEN Fail("NoParent") /\ UNCHANGED wiimote
       ELSE /\ wiimote' = udev[guitar[1]].parent
            /\ pc' = "validate_parent"
            /\ UNCHANGED err
    /\ UNCHANGED <<kernel_name, udev, guitar, printed, inputs, scanned, sibs, idx, cur,
                   children, cmd, parentQueried, nameQueried, descended, source, faithful>>

\* lines 87-113: the two sanity checks, the println! and the empty Wiitar.
\* The four errors of the sanity checks (no subsystem, not "hid", no driver,
\* not "wiimote") are all the failure of the parent validation.
ValidateParent ==
    /\ pc = "validate_parent"
    /\ LET w == udev[wiimote[1]]
       IN  IF \/ w.subsystem = None
              \/ ~IsHidSubsystem(w.subsystem[1])
              \/ w.driver = None
              \/ ~IsWiimoteDriver(w.driver[1])
           THEN /\ Fail("ParentMismatch")
                /\ UNCHANGED <<printed, inputs>>
           ELSE /\ printed' = Some(<<ToStringLossy(w.sysname),
                                     ToStringLossy(udev[guitar[1]].sysname)>>)
                /\ inputs' = Some(EmptyWiitar)
                /\ pc' = "scan"
                /\ UNCHANGED err
    /\ UNCHANGED <<kernel_name, udev, guitar, wiimote, scanned, sibs, idx, cur, children,
                   cmd, parentQueried, nameQueried, descended, source, faithful>>

\* lines 117-128
ScanSiblings ==
    /\ pc = "scan"
    /\ \E r \in SiblingScanResults(udev, wiimote[1]) :
        /\ sibs' = r
        /\ faithful' = (faithful /\ r \in FaithfulResults(udev, wiimote[1]))
    /\ scanned' = TRUE
    /\ idx' = 0
    /\ pc' = "iter"
    /\ UNCHANGED <<kernel_name, udev, guitar, wiimote, printed, inputs, cur, children, err,
                   cmd, parentQueried, nameQueried, descended, source>>

\* the loop has no more devices to pull: fall through to line 178
Exhausted ==
    /\ pc = "iter"
    /\ idx = Len(sibs)
    /\ pc' = "final"
    /\ children' = <<>>
    /\ cur' = None
    /\ UNCHANGED <<kernel_name, udev, guitar, wiimote, printed, inputs, scanned, sibs, idx,
                   err, cmd, parentQueried, nameQueried, descended, source, faithful>>

\* lines 126-141, 149-150, 158-159, 167-174: pull one device from the scan,
\* run the filter closure on it, read its name and look at the slot
Inspect ==
    /\ pc = "iter"
    /\ idx < Len(sibs)
    /\ idx' = idx + 1
    /\ children' = <<>>
    /\ LET device == sibs[idx + 1]
           verdict == SiblingFilter(udev, device, wiimote[1])
           os_name == udev[device].name
           role == IF os_name = None THEN "other" ELSE RoleOf(ToStringLossy(os_name[1]))
       IN  /\ parentQueried' = IF device = wiimote[1] THEN parentQueried
                               ELSE parentQueried \cup {device}
           /\ nameQueried' = IF verdict = "keep" THEN nameQueried \cup {device}
                             ELSE nameQueried
           /\ IF verdict = "panic"
              THEN pc' = "panicked" /\ cur' = None
              ELSE IF verdict = "drop" \/ role = "other"
              THEN pc' = "iter" /\ cur' = None
              ELSE IF SlotIsNone(inputs[1], role)
              THEN pc' = "descend" /\ cur' = Some(device)
              ELSE pc' = AfterMatch(inputs[1]) /\ cur' = None
    /\ UNCHANGED <<kernel_name, udev, guitar, wiimote, printed, inputs, scanned, sibs, err,
                   cmd, descended, source, faithful>>

\* lines 142-146 (151-155, 160-164), 172-174 and 185-209
Descend ==
    /\ pc = "descend"
    /\ descended' = descended \cup {cur[1]}
    /\ \E r \in DescentScanResults(udev, cur[1]) :
        LET role == RoleOf(ToStringLossy(udev[cur[1]].name[1]))
            child == FirstEvent(udev, r, cur[1])
        IN  /\ children' = r
            /\ faithful' = (faithful /\ r \in FaithfulResults(udev, cur[1]))
            /\ IF child = None
               THEN /\ Fail("NoEventNode")
                    /\ UNCHANGED <<inputs, source>>
               ELSE /\ inputs' = Some([inputs[1] EXCEPT ![role] = child])
                    /\ source' = [source EXCEPT ![role] = cur]
                    /\ pc' = AfterMatch(inputs'[1])
                    /\ UNCHANGED err
    /\ UNCHANGED <<kernel_name, udev, guitar, wiimote, printed, scanned, sibs, idx, cur,
                   cmd, parentQueried, nameQueried>>

\* lines 178-182
FinalCheck ==
    /\ pc = "final"
    /\ IF ~IsComplete(inputs[1])
       THEN Fail("IncompleteResolution")
       ELSE pc' = "resolved" /\ UNCHANGED err
    /\ UNCHANGED <<kernel_name, udev, guitar, wiimote, printed, inputs, scanned, sibs, idx,
                   cur, children, cmd, parentQueried, nameQueried, descended, source,
                   faithful>>

----------------------------------------------------------------------------
(* main, after Wiitar::from_kernel_name has returned Ok *)

\* the fixed --map / --block words that follow an --input
Maps(role) == <<"maps-of-" \o role>>

\* line 224
NewCommand ==
    /\ pc = "resolved"
    /\ \E evsieve_path \in {None, Some("/opt/evsieve")} :
        cmd' = Some(<<IF evsieve_path = None THEN "evsieve" ELSE evsieve_path[1]>>)
    /\ pc' = "input_wiimote"
    /\ UNCHANGED <<kernel_name, udev, guitar, wiimote, printed, inputs, scanned, sibs, idx,
                   cur, children, err, parentQueried, nameQueried, descended, source,
                   faithful>>

\* lines 226-246, 248-271, 273-286: one --input with its mappings
AddInput(role, next) ==
    /\ pc = "input_" \o role
    /\ LET slot == inputs[1][role]
       IN  IF slot = None
           THEN /\ pc' = "main_failed"
                /\ err' = "missing " \o role
                /\ UNCHANGED cmd
           ELSE IF udev[slot[1]].devnode = None
           THEN /\ pc' = "main_failed"
                /\ err' = "failed to retrieve " \o role \o " devnode"
                /\ UNCHANGED cmd
           ELSE /\ cmd' = Some(cmd[1] \o <<"--input", udev[slot[1]].devnode[1],
                                          "domain=" \o role, "grab", "persist=exit">>
                                      \o Maps(role))
                /\ pc' = next
                /\ UNCHANGED err
    /\ UNCHANGED <<kernel_name, udev, guitar, wiimote, printed, inputs, scanned, sibs, idx,
                   cur, children, parentQueried, nameQueried, descended, source, faithful>>

AddWiimoteInput == AddInput("wiimote", "input_guitar")
AddGuitarInput == AddInput("guitar", "input_accel")
AddAccelInput == AddInput("accel", "output")

\* lines 289-294
Exec ==
    /\ pc = "output"
    /\ cmd' = Some(cmd[1] \o <<"--output", "name=Wiitar", "@wiitar">>)
    /\ pc' = "exec"
    /\ UNCHANGED <<kernel_name, udev, guitar, wiimote, printed, inputs, scanned, sibs, idx,
                   cur, children, err, parentQueried, nameQueried, descended, source,
                   faithful>>

Next ==
    \/ Locate
    \/ ValidateIdentity
    \/ LocateParent
    \/ ValidateParent
    \/ ScanSiblings
    \/ Exhausted
    \/ Inspect
    \/ Descend
    \/ FinalCheck
    \/ NewCommand
    \/ AddWiimoteInput
    \/ AddGuitarInput
    \/ AddAccelInput
    \/ Exec

Spec == Init /\ [][Next]_vars

----------------------------------------------------------------------------
(* Vocabulary of the properties *)

\* the resolver has returned Ok(inputs) to main
Succeeded ==
    pc \in {"resolved", "input_wiimote", "input_guitar", "input_accel", "output", "exec",
            "main_failed"}

NameOfRole ==
    [wiimote |-> REMOTE_NAME, guitar |-> GUITAR_NAME, accel |-> ACCEL_NAME]

\* the devices whose system name is the kernel name
Accessories == {d \in DOMAIN udev : udev[d].sysname = kernel_name}

\* the input-subsystem children of k whose system name starts with "event"
EventNodesOf(k) ==
    {e \in DOMAIN udev : /\ udev[e].parent = Some(k)
                         /\ udev[e].subsystem = Some("input")
                         /\ StartsWith(udev[e].sysname, EVENT)}

\* the accessory d has a name that contains "Wii" and ends with "Guitar"
GuitarIdentity(d) ==
    /\ udev[d].name # None
    /\ Contains(udev[d].name[1], WII)
    /\ EndsWith(udev[d].name[1], GUITAR)

\* a candidate of the sibling scan that is a direct child of the validated parent
Survives(d) == d # wiimote[1] /\ udev[d].parent = wiimote

\* position i of the sibling scan holds the first surviving sibling named as role r
IsFirstOfRole(i, r) ==
    /\ Survives(sibs[i])
    /\ udev[sibs[i]].name = Some(NameOfRole[r])
    /\ \A j \in 1..(i - 1) : ~(Survives(sibs[j]) /\ udev[sibs[j]].name = Some(NameOfRole[r]))

AllFilled == inputs # None /\ \A r \in Roles : inputs[1][r] # None

Taxonomy ==
    {"AmbiguousOrMissingDevice", "MissingAttribute", "IdentityMismatch", "NoParent",
     "ParentMismatch", "NoEventNode", "IncompleteResolution"}

----------------------------------------------------------------------------
(* C1 *)

\* the device tree of the scenario: one accessory, a hid/wiimote parent with
\* exactly the three named inputs, each with one event node that has a device node
ScenarioTree ==
    /\ Cardinality(Accessories) = 1
    /\ \A g \in Accessories :
        /\ GuitarIdentity(g)
        /\ udev[g].parent # None
        /\ LET p == udev[g].parent[1]
               K == {k \in DOMAIN udev : udev[k].parent = Some(p)
                                         /\ udev[k].subsystem = Some("input")}
           IN  /\ udev[p].subsystem = Some("hid")
               /\ udev[p].driver = Some("wiimote")
               /\ Cardinality(K) = 3
               /\ {udev[k].name : k \in K} = {Some(NameOfRole[r]) : r \in Roles}
               /\ \A k \in K : /\ Cardinality(EventNodesOf(k)) = 1
                               /\ \A e \in EventNodesOf(k) : udev[e].devnode # None

\* C1: on the scenario tree, with enumerations that return the tree's devices
\* in any order, the resolution never fails, and once it has succeeded each
\* slot holds the event node of the input named as its role, with three
\* distinct device nodes.
C1_ScenarioResolves ==
    (faithful /\ ScenarioTree) =>
        /\ pc \notin {"failed", "panicked", "main_failed"}
        /\ Succeeded =>
            /\ \A r \in Roles :
                /\ inputs[1][r] # None
                /\ udev[inputs[1][r][1]].devnode # None
                /\ \E k \in DOMAIN udev :
                    /\ udev[k].parent = wiimote
                    /\ udev[k].name = Some(NameOfRole[r])
                    /\ inputs[1][r][1] \in EventNodesOf(k)
            /\ \A r1, r2 \in Roles :
                r1 # r2 => udev[inputs[1][r1][1]].devnode # udev[inputs[1][r2][1]].devnode

C1_Witness ==
    /\ faithful
    /\ ScenarioTree
    /\ pc = "exec"
    /\ kernel_name = INPUT \o <<"1","9">>
    /\ udev[inputs[1].wiimote[1]].devnode = Some("/dev/input/event7")
    /\ udev[inputs[1].guitar[1]].devnode = Some("/dev/input/event8")
    /\ udev[inputs[1].accel[1]].devnode = Some("/dev/input/event9")

----------------------------------------------------------------------------
(* C2 *)

\* C2: when no device or more than one device has the kernel name, the
\* resolver has failed with AmbiguousOrMissingDevice as soon as it has left
\* the lookup, without an accessory, a parent, a sibling scan, an endpoint
\* set or a command.
C2_AmbiguousOrMissing ==
    (pc # "locate" /\ Cardinality(Accessories) # 1) =>
        /\ pc = "failed"
        /\ err = "AmbiguousOrMissingDevice"
        /\ guitar = None
        /\ wiimote = None
        /\ ~scanned
        /\ inputs = None
        /\ \A r \in Roles : source[r] = None
        /\ cmd = None

C2_Witness ==
    /\ pc = "failed"
    /\ err = "AmbiguousOrMissingDevice"
    /\ Cardinality(Accessories) = 2
    /\ \A g \in Accessories : GuitarIdentity(g)

----------------------------------------------------------------------------
(* C3 *)

\* the accessory is unique, passes the identity check and has a parent whose
\* subsystem is not "hid" or whose driver is not "wiimote"
WrongParent ==
    /\ Cardinality(Accessories) = 1
    /\ \A g \in Accessories :
        /\ GuitarIdentity(g)
        /\ udev[g].parent # None
        /\ \/ udev[udev[g].parent[1]].subsystem # Some("hid")
           \/ udev[udev[g].parent[1]].driver # Some("wiimote")

\* C3: with such a parent the resolver has failed with ParentMismatch as soon
\* as it has left the parent validation, without a sibling scan, a
\* confirmation message or an endpoint set.
C3_ParentMismatch ==
    (WrongParent /\ pc \notin {"locate", "identity", "parent", "validate_parent"}) =>
        /\ pc = "failed"
        /\ err = "ParentMismatch"
        /\ ~scanned
        /\ printed = None
        /\ inputs = None

\* the parent is a generic HID device whose children are the complete set
C3_Witness ==
    /\ pc = "failed"
    /\ err = "ParentMismatch"
    /\ kernel_name = INPUT \o <<"1","9">>
    /\ udev[HID1].subsystem = Some("hid")
    /\ udev[HID1].driver = Some("hid-generic")

----------------------------------------------------------------------------
(* C4 *)

\* C4: a slot is filled from the first surviving sibling of its role in the
\* order of the scan, and only such a first sibling is ever descended into;
\* a later sibling of the same role changes nothing.
C4_FirstMatchWins ==
    scanned =>
        /\ \A r \in Roles :
            /\ inputs[1][r] # None <=> source[r] # None
            /\ source[r] # None =>
                \E i \in 1..idx : sibs[i] = source[r][1] /\ IsFirstOfRole(i, r)
        /\ \A d \in descended :
            \E i \in 1..idx : \E r \in Roles : sibs[i] = d /\ IsFirstOfRole(i, r)
        /\ (pc = "failed" /\ err = "NoEventNode") =>
            \E r \in Roles : cur # None /\ sibs[idx] = cur[1] /\ IsFirstOfRole(idx, r)

\* a second accelerometer without an event node came after the first one and
\* the resolution succeeded
C4_Witness ==
    /\ pc = "resolved"
    /\ \E i, j \in 1..idx :
        /\ i < j
        /\ IsFirstOfRole(i, "accel")
        /\ sibs[j] = "/sys/hci0/hid4/event5"
        /\ EventNodesOf(sibs[j]) = {}
        /\ sibs[j] \in nameQueried \ descended

----------------------------------------------------------------------------
(* C5 *)

\* C5: once the three slots are filled the loop does not pull another device:
\* the last device pulled is the one that completed the set, nothing after it
\* has been asked for its parent, its name or its children, and the
\* resolution succeeds.
C5_EarlyExit ==
    (scanned /\ AllFilled) =>
        /\ (pc = "final" \/ Succeeded)
        /\ err \notin Taxonomy
        /\ idx >= 1
        /\ \E r \in Roles : source[r] = Some(sibs[idx])
        /\ (parentQueried \cup nameQueried \cup descended) \subseteq {sibs[i] : i \in 1..idx}

\* a device without a parent follows the sibling that completed the set
C5_Witness ==
    /\ pc = "resolved"
    /\ idx < Len(sibs)
    /\ udev[sibs[idx + 1]].parent = None
    /\ sibs[idx + 1] \notin parentQueried

----------------------------------------------------------------------------
(* C6 *)

\* C6: after a successful resolution the three slots hold three devices with
\* pairwise distinct system paths, and a failed resolution leaves no command.
C6_DistinctOrFailed ==
    /\ Succeeded =>
        /\ AllFilled
        /\ \A r1, r2 \in Roles : r1 # r2 => inputs[1][r1] # inputs[1][r2]
    /\ pc = "failed" => cmd = None

----------------------------------------------------------------------------
(* C7 *)

\* C7: the resolver never panics, and an error it returns is one of the
\* taxonomy.
C7_NoPanic ==
    /\ pc # "panicked"
    /\ pc = "failed" => err \in Taxonomy

----------------------------------------------------------------------------
(* C8 *)

\* C8: every device whose name was read, that was descended into or that a
\* slot was filled from is a direct child of the validated parent and not the
\* parent itself.
C8_OnlyDirectChildren ==
    scanned =>
        \A d \in nameQueried \cup descended \cup {source[r][1] : r \in {x \in Roles : source[x] # None}} :
            /\ d # wiimote[1]
            /\ udev[d].parent = wiimote

\* the scan returned a device with the name of a role that is not a direct
\* child (the parent itself, a deeper event node or a device elsewhere) ahead
\* of the sibling that filled that role
C8_Witness ==
    /\ pc = "resolved"
    /\ \E i \in 1..idx : \E r \in Roles :
        /\ ~Survives(sibs[i])
        /\ udev[sibs[i]].parent # None
        /\ udev[sibs[i]].name = Some(NameOfRole[r])
        /\ source[r] # None
        /\ \E j \in 1..idx : i < j /\ sibs[j] = source[r][1]

----------------------------------------------------------------------------
(* C9 *)

\* c may be returned by the descent into d
Eligible(c, d) == c # d /\ StartsWith(udev[c].sysname, EVENT)

\* C9: right after a descent the slot of the sibling's role holds the first
\* device of the descent scan that is not the sibling and whose system name
\* starts with "event"; without such a device the resolution has failed with
\* NoEventNode.  A slot never holds the sibling it was filled from.
C9_FirstEventNode ==
    /\ (scanned /\ cur # None /\ pc # "descend") =>
        LET d == cur[1]
            hits == {i \in 1..Len(children) : Eligible(children[i], d)}
        IN  IF hits = {}
            THEN pc = "failed" /\ err = "NoEventNode"
            ELSE /\ pc # "failed"
                 /\ \E i \in hits :
                     /\ \A j \in hits : i <= j
                     /\ \E r \in Roles : /\ udev[d].name = Some(NameOfRole[r])
                                         /\ inputs[1][r] = Some(children[i])
    /\ scanned => \A r \in Roles : inputs[1][r] # None => inputs[1][r] # source[r]

\* two roles were resolved, the third sibling's scan held only itself (a
\* device named "event5"), and a later sibling of that role has an event node
C9_Witness ==
    /\ pc = "failed"
    /\ err = "NoEventNode"
    /\ cur = Some("/sys/hci0/hid4/event5")
    /\ children = <<"/sys/hci0/hid4/event5">>
    /\ inputs[1].wiimote # None
    /\ inputs[1].guitar # None
    /\ \E j \in (idx + 1)..Len(sibs) : sibs[j] = "/sys/hci0/hid4/input50"

----------------------------------------------------------------------------
(* C10 *)

\* C10: the resolver returns Ok only with the three slots filled; it returns
\* IncompleteResolution only after the scan is exhausted with a slot empty;
\* when the loop has ended (not by a panic or a failed descent) with a slot
\* empty, the result is IncompleteResolution; and with the three slots filled
\* the result is Ok.
C10_CompleteOrIncomplete ==
    /\ Succeeded => \A r \in Roles : inputs[1][r] # None
    /\ err = "IncompleteResolution" =>
        /\ pc = "failed"
        /\ idx = Len(sibs)
        /\ ~AllFilled
    /\ (scanned /\ ~AllFilled /\ pc \notin {"iter", "descend", "final", "panicked"}
            /\ err # "NoEventNode") =>
        (pc = "failed" /\ err = "IncompleteResolution")
    /\ (scanned /\ AllFilled /\ pc # "final") => (Succeeded /\ err \notin Taxonomy)

\* the scan ran out with two of the three slots filled
C10_Witness ==
    /\ pc = "failed"
    /\ err = "IncompleteResolution"
    /\ Cardinality({r \in Roles : inputs[1][r] # None}) = 2

====
